---- MODULE Spec2Model ----
(***************************************************************************)
(* A model of src/model/training.py: the annotation parser, the dataset    *)
(* builder (split, batch-size clamping, pipeline stages), the epoch        *)
(* override, the label file writer and the main flow that chains them.     *)
(*                                                                         *)
(* Python floats are IEEE-754 doubles.  A double is modelled exactly, as   *)
(* a record [m, e] that stands for M * 2^e with M < 2^53.  M is a natural  *)
(* number written as a sequence of 16-bit limbs, least significant first,  *)
(* without high zero limbs (zero is <<>>), so that no intermediate value   *)
(* leaves the range of the checker's integers.                             *)
(***************************************************************************)
EXTENDS Integers, Sequences, FiniteSets, TLC

\* ------------------------------------------------------------------ bounds

\* Largest number of records handed to create_dataset_detection.
MaxN == 11
\* Train splits are the decimals k/SplitDen, 0 < k < SplitDen (and 0.8).
SplitDen == 10
\* Largest configured batch size drawn besides the default one.
MaxBatch == 2
\* Largest shuffle buffer drawn when the builder is called directly.
MaxShuffleBuffer == 2
\* Number of outputs of the shuffle whose random draw is enumerated; the
\* later draws take the front of the buffer.
MaxDraws == 1
\* Largest number of lines of an enumerated annotation file.
MaxLines == 2
\* Largest vocabulary handed to save_labels.
MaxVocab == 3
\* Largest --num_epochs value drawn.
MaxEpochsArg == 1

\* ------------------------------------------------------- program constants

\* Significand width of a Python float.
Precision == 53
\* EPOCHS default, line 415.
DefaultEpochs == 200
\* BATCH_SIZE, line 394, times the one replica of OneDeviceStrategy.
GLOBAL_BATCH_SIZE == 16
\* SHUFFLE_BUFFER_SIZE, line 398.
SHUFFLE_BUFFER_SIZE == 64
\* The default batch_size of create_dataset_detection, line 156.
DefaultBatch == 64

\* An optional value is <<>> (None) or <<v>>.
None == <<>>
Some(v) == <<v>>

Min(a, b) == IF a < b THEN a ELSE b

\* --------------------------------------------------------- natural numbers

LimbBase == 2^16
LimbBits == CHOOSE k \in 1..30 : 2^k = LimbBase

Limb(a, j) == IF j \in 1..Len(a) THEN a[j] ELSE 0

\* a without its high zero limbs.
Normalize(a) ==
  LET used == {j \in 1..Len(a) : a[j] # 0}
      top  == IF used = {} THEN 0 ELSE CHOOSE j \in used : \A k \in used : k <= j
  IN  SubSeq(a, 1, top)

\* Bit i of a, bit 0 the least significant.
Bit(a, i) == (Limb(a, i \div LimbBits + 1) \div 2^(i % LimbBits)) % 2

BitLen(a) ==
  IF a = <<>> THEN 0
  ELSE LimbBits * (Len(a) - 1)
       + (CHOOSE k \in 1..LimbBits : 2^(k-1) <= a[Len(a)] /\ a[Len(a)] < 2^k)

\* floor(a / 2^s)
ShiftRight(a, s) ==
  LET q == s \div LimbBits
      r == s % LimbBits
  IN  Normalize([j \in 1..Len(a) |->
                   (Limb(a, j + q) \div 2^r)
                   + (Limb(a, j + q + 1) % 2^r) * 2^(LimbBits - r)])

\* The s low bits of a are all zero.
LowBitsZero(a, s) == \A i \in 0..(s - 1) : Bit(a, i) = 0

\* a * n + carry for a small natural n, limb by limb.
RECURSIVE MulSmall(_, _, _)
MulSmall(a, n, carry) ==
  IF a = <<>> THEN (IF carry = 0 THEN <<>> ELSE <<carry>>)
  ELSE LET t == a[1] * n + carry
       IN  <<t % LimbBase>> \o MulSmall(Tail(a), n, t \div LimbBase)

\* a + 1
RECURSIVE Inc(_)
Inc(a) ==
  IF a = <<>> THEN <<1>>
  ELSE IF a[1] + 1 < LimbBase THEN <<a[1] + 1>> \o Tail(a)
  ELSE <<0>> \o Inc(Tail(a))

\* a - b - borrow for a >= b + borrow, limb by limb (high zero limbs kept).
RECURSIVE SubLimbs(_, _, _)
SubLimbs(a, b, borrow) ==
  IF a = <<>> THEN <<>>
  ELSE LET d    == a[1] - Limb(b, 1) - borrow
           rest == IF b = <<>> THEN <<>> ELSE Tail(b)
       IN  IF d < 0 THEN <<d + LimbBase>> \o SubLimbs(Tail(a), rest, 1)
           ELSE <<d>> \o SubLimbs(Tail(a), rest, 0)

\* 2^w
Pow2(w) == [j \in 1..(w \div LimbBits) |-> 0] \o <<2^(w % LimbBits)>>

\* The integer a number of at most two limbs is.
RECURSIVE ToInt(_)
ToInt(a) == IF a = <<>> THEN 0 ELSE a[1] + LimbBase * ToInt(Tail(a))

\* count limbs of the expansion of r/den in base LimbBase (r < den), most
\* significant first, and the remainder left.
RECURSIVE DivLimbs(_, _, _)
DivLimbs(r, den, count) ==
  IF count = 0 THEN [limbs |-> <<>>, rem |-> r]
  ELSE LET t    == r * LimbBase
           next == DivLimbs(t % den, den, count - 1)
       IN  [limbs |-> <<t \div den>> \o next.limbs, rem |-> next.rem]

Reverse(s) == [j \in 1..Len(s) |-> s[Len(s) + 1 - j]]

\* ------------------------------------------------------------ Python float

FZero == [m |-> <<>>, e |-> 0]

\* The double nearest to (a + f) * 2^e, where 0 <= f < 1 and sticky says
\* f > 0: round half to even.
FRound(a, e, sticky) ==
  LET s == BitLen(a) - Precision
  IN  IF a = <<>> THEN FZero
      ELSE IF s <= 0 THEN [m |-> a, e |-> e]
      ELSE LET q     == ShiftRight(a, s)
               lower == sticky \/ ~LowBitsZero(a, s - 1)
               up    == Bit(a, s - 1) = 1 /\ (lower \/ Bit(q, 0) = 1)
               r     == IF up THEN Inc(q) ELSE q
           IN  IF BitLen(r) > Precision
               THEN [m |-> ShiftRight(r, 1), e |-> e + s + 1]
               ELSE [m |-> r, e |-> e + s]

\* x * n for a float x and an int n >= 0 (the int converts exactly).
FMulInt(x, n) == FRound(Normalize(MulSmall(x.m, n, 0)), x.e, FALSE)

\* 1 - x for a float 0 < x < 1 (so x.e < 0).
FOneMinus(x) ==
  FRound(Normalize(SubLimbs(Pow2(0 - x.e), x.m, 0)), x.e, FALSE)

\* x * 0.5: exact.
FMulHalf(x) == IF x.m = <<>> THEN FZero ELSE [x EXCEPT !.e = @ - 1]

\* int(x) for a float x >= 0: truncation.
FTrunc(x) ==
  IF x.e >= 0 THEN ToInt(x.m) * 2^(x.e) ELSE ToInt(ShiftRight(x.m, 0 - x.e))

\* The float a decimal literal num/den (0 < num < den) denotes: the double
\* nearest to the quotient, from its first 80 binary places.
FromDecimal(num, den) ==
  LET places == 5
      d      == DivLimbs(num, den, places)
  IN  FRound(Normalize(Reverse(d.limbs)), 0 - places * LimbBits, d.rem > 0)

\* ------------------------------------------------------------------ state

VARIABLES
  pc,                  \* position of the main flow; "harness" when a function
                       \* is called directly
  argv_num_epochs,     \* the --num_epochs flag on the command line
  num_epochs, EPOCHS,
  file,                \* the lines of the annotation file
  all_labels,          \* parse_filenames_and_bboxes_from_json: its frame
  ppc, lineNo, image_filenames, bbox_labels, bbox_coords, parsed,
  filenames,           \* create_dataset_detection: its frame
  train_split, batch_size, shuffle_buffer_size,
  dpc, dataset, train_size, val_size, test_size,
  train_dataset, val_dataset, test_dataset,
  train_batch_size, val_batch_size, test_batch_size,
  dsError,             \* the exception create_dataset_detection raised
  labels,              \* save_labels: its frame
  lpc, written, labelsFile,
  model, tfliteFile

mainVars   == <<pc, argv_num_epochs, num_epochs, EPOCHS, model, tfliteFile>>
parserVars == <<all_labels, ppc, lineNo, image_filenames, bbox_labels,
                bbox_coords, parsed>>
dsArgs     == <<filenames, train_split, batch_size, shuffle_buffer_size>>
dsSizes    == <<train_size, val_size, test_size>>
dsParts    == <<train_dataset, val_dataset, test_dataset>>
dsBatch    == <<train_batch_size, val_batch_size, test_batch_size>>
dsVars     == <<dsArgs, dpc, dataset, dsSizes, dsParts, dsBatch, dsError>>
labelVars  == <<labels, lpc, written, labelsFile>>
vars       == <<mainVars, file, parserVars, dsVars, labelVars>>

\* After a return to the caller: the main flow goes on at `next`.
Return(next) == IF pc = "harness" THEN "harness" ELSE next
\* Faulty variant: the main flow catches the exception and goes on.
RaiseSwallowed == IF pc = "harness" THEN "harness" ELSE "create_dataset"
\* An exception nobody catches ends the main flow (lines 413-458 hold no
\* try).
Raise == IF pc = "harness" THEN "harness" ELSE "aborted"

\* ------------------------------------------------- create_dataset_detection

(***************************************************************************)
(* A tf.data dataset is modelled by what iterating it yields: its          *)
(* elements in order (element i stands for the i-th slice of filenames,    *)
(* classes and boxes), its batches once batched, and the stages applied.   *)
(***************************************************************************)
EmptyDs == [elems |-> <<>>, batched |-> FALSE, batches |-> <<>>, stages |-> <<>>]

Stage(ds, name) == [ds EXCEPT !.stages = Append(@, name)]

\* Dataset.from_tensor_slices over n slices, then the parse map.
Assemble(n) ==
  [elems   |-> [i \in 1..n |-> i],
   batched |-> FALSE,
   batches |-> <<>>,
   stages  |-> <<"from_tensor_slices", "map:parse_image_and_encode_bboxes">>]

\* The order a buffered shuffle yields: the buffer is filled from the input,
\* the element at a random offset is swapped to the front and yielded.
\* draws are the random numbers; when they run out the front is taken.
RECURSIVE ShuffleOrder(_, _, _, _)
ShuffleOrder(buffer, input, size, draws) ==
  LET k      == Min(size - Len(buffer), Len(input))
      full   == buffer \o SubSeq(input, 1, k)
      rest   == SubSeq(input, k + 1, Len(input))
      offset == IF draws = <<>> THEN 0 ELSE Head(draws) % Len(full)
      left   == Tail([full EXCEPT ![offset + 1] = full[1]])
  IN  IF full = <<>> THEN <<>>
      ELSE <<full[offset + 1]>>
           \o ShuffleOrder(left, rest, size,
                           IF draws = <<>> THEN <<>> ELSE Tail(draws))

\* The random numbers enumerated for the shuffle of n elements.
Draws(n, size) ==
  IF n = 0 THEN {<<>>}
  ELSE [1..Min(MaxDraws, n) -> 0..(Min(size, n) - 1)]

\* dataset.shuffle(buffer_size, reshuffle_each_iteration=False): one order,
\* the same at every iteration.
Shuffle(ds, size, draws) ==
  Stage([ds EXCEPT !.elems = ShuffleOrder(<<>>, @, size, draws)], "shuffle")

\* dataset.take(count): everything when count is negative or too large.
Take(ds, count) ==
  Stage([ds EXCEPT !.elems = IF count < 0 \/ count >= Len(@) THEN @
                             ELSE SubSeq(@, 1, count)], "take")

\* dataset.skip(count): nothing left when count is negative or too large.
Skip(ds, count) ==
  Stage([ds EXCEPT !.elems = IF count < 0 \/ count >= Len(@) THEN <<>>
                             ELSE SubSeq(@, count + 1, Len(@))], "skip")

\* Lines 207-209.  train_split is the pair <<num, den>> of the decimal
\* literal the float was written as.
TrainSize(split, n) == FTrunc(FMulInt(FromDecimal(split[1], split[2]), n))
ValSize(split, n) ==
  FTrunc(FMulInt(FMulHalf(FOneMinus(FromDecimal(split[1], split[2]))), n))
TestSize(n, train, val) == n - train - val

\* Lines 210-212.
TrainPartition(ds, train, val) == Take(ds, train)
ValPartition(ds, train, val) == Take(Skip(ds, train), val)
\* Faulty variant: the test partition skips the validation records only.
TestPartitionSkipVal(ds, train, val) == Skip(ds, val)
TestPartition(ds, train, val) == Skip(ds, val + train)

\* Faulty variant: the comparison the other way round, the larger of the two.
ClampBatchLarger(configured, size) ==
  IF configured > size THEN configured ELSE size
\* Lines 218, 222, 226.
ClampBatch(configured, size) == IF configured < size THEN configured ELSE size

\* dense_to_ragged_batch(size) rejects a batch size that is not positive
\* when the dataset is built.
BatchRaises(size) == size <= 0

\* dense_to_ragged_batch(size), drop_remainder left False.
RaggedBatch(ds, size) ==
  LET n == Len(ds.elems)
  IN  Stage([ds EXCEPT
               !.batched = TRUE,
               !.batches = [k \in 1..((n + size - 1) \div size) |->
                              SubSeq(ds.elems, (k - 1) * size + 1,
                                     Min(k * size, n))]],
            "ragged_batch")

\* Faulty variant: the validation partition is not prefetched either.
PrefetchedTrainOnly == {"train"}
\* Lines 274-275: which partitions get the prefetch stage.
Prefetched == {"train", "val"}
PrefetchStage(part, ds) ==
  IF part \in Prefetched THEN Stage(ds, "prefetch") ELSE ds

NoError == [type |-> "", at |-> ""]

DsFrame(next) ==
  /\ pc' = next
  /\ UNCHANGED <<argv_num_epochs, num_epochs, EPOCHS, model, tfliteFile,
                 file, parserVars, labelVars, dsArgs, dsError>>

\* The statement at dpc raises: the exception leaves the function.
DsRaise(type) ==
  /\ dsError' = [type |-> type, at |-> dpc]
  /\ dpc' = "raised"
  /\ pc' = Raise
  /\ UNCHANGED <<argv_num_epochs, num_epochs, EPOCHS, model, tfliteFile,
                 file, parserVars, labelVars, dsArgs>>

\* Lines 179-199.  An empty Python list converts to a float32 tensor, which
\* tf.io.read_file refuses when the map function is traced; whether the
\* library gets that far for an empty list is left open.
DsAssemble ==
  /\ dpc = "assemble"
  /\ \E traced \in (IF Len(filenames) = 0 THEN BOOLEAN ELSE {TRUE}) :
       IF traced
       THEN /\ dataset' = Assemble(Len(filenames))
            /\ dpc' = "shuffle"
            /\ DsFrame(pc)
       ELSE /\ DsRaise("TypeError")
            /\ UNCHANGED dataset
  /\ UNCHANGED <<dsSizes, dsParts, dsBatch>>

\* Lines 203-205.
DsShuffle ==
  /\ dpc = "shuffle"
  /\ \E draws \in Draws(Len(dataset.elems), shuffle_buffer_size) :
       dataset' = Shuffle(dataset, shuffle_buffer_size, draws)
  /\ dpc' = "sizes"
  /\ DsFrame(pc)
  /\ UNCHANGED <<dsSizes, dsParts, dsBatch>>

\* Lines 207-209.
DsSizes ==
  /\ dpc = "sizes"
  /\ train_size' = TrainSize(train_split, Len(filenames))
  /\ val_size' = ValSize(train_split, Len(filenames))
  /\ test_size' = TestSize(Len(filenames), train_size', val_size')
  /\ dpc' = "split"
  /\ DsFrame(pc)
  /\ UNCHANGED <<dataset, dsParts, dsBatch>>

\* Lines 210-212.
DsSplit ==
  /\ dpc = "split"
  /\ train_dataset' = TrainPartition(dataset, train_size, val_size)
  /\ val_dataset' = ValPartition(dataset, train_size, val_size)
  /\ test_dataset' = TestPartition(dataset, train_size, val_size)
  /\ dpc' = "batch_train"
  /\ DsFrame(pc)
  /\ UNCHANGED <<dataset, dsSizes, dsBatch>>

\* Lines 218-221.
DsBatchTrain ==
  /\ dpc = "batch_train"
  /\ train_batch_size' = ClampBatch(batch_size, train_size)
  /\ IF BatchRaises(train_batch_size')
     THEN /\ DsRaise("InvalidArgumentError")
          /\ UNCHANGED train_dataset
     ELSE /\ train_dataset' = RaggedBatch(train_dataset, train_batch_size')
          /\ dpc' = "batch_val"
          /\ DsFrame(pc)
  /\ UNCHANGED <<dataset, dsSizes, val_dataset, test_dataset,
                 val_batch_size, test_batch_size>>

\* Lines 222-225.
DsBatchVal ==
  /\ dpc = "batch_val"
  /\ val_batch_size' = ClampBatch(batch_size, val_size)
  /\ IF BatchRaises(val_batch_size')
     THEN /\ DsRaise("InvalidArgumentError")
          /\ UNCHANGED val_dataset
     ELSE /\ val_dataset' = RaggedBatch(val_dataset, val_batch_size')
          /\ dpc' = "batch_test"
          /\ DsFrame(pc)
  /\ UNCHANGED <<dataset, dsSizes, train_dataset, test_dataset,
                 train_batch_size, test_batch_size>>

\* Lines 226-229.
DsBatchTest ==
  /\ dpc = "batch_test"
  /\ test_batch_size' = ClampBatch(batch_size, test_size)
  /\ IF BatchRaises(test_batch_size')
     THEN /\ DsRaise("InvalidArgumentError")
          /\ UNCHANGED test_dataset
     ELSE /\ test_dataset' = RaggedBatch(test_dataset, test_batch_size')
          /\ dpc' = "resize"
          /\ DsFrame(pc)
  /\ UNCHANGED <<dataset, dsSizes, train_dataset, val_dataset,
                 train_batch_size, val_batch_size>>

\* Lines 230-241.
DsResize ==
  /\ dpc = "resize"
  /\ val_dataset' = Stage(val_dataset, "map:Resizing")
  /\ test_dataset' = Stage(test_dataset, "map:Resizing")
  /\ dpc' = "augment"
  /\ DsFrame(pc)
  /\ UNCHANGED <<dataset, dsSizes, train_dataset, dsBatch>>

\* Lines 244-258.
DsAugment ==
  /\ dpc = "augment"
  /\ train_dataset' =
       Stage(Stage(train_dataset, "map:RandomFlip"), "map:JitteredResize")
  /\ dpc' = "to_dense"
  /\ DsFrame(pc)
  /\ UNCHANGED <<dataset, dsSizes, val_dataset, test_dataset, dsBatch>>

\* Lines 260-271.
DsToDense ==
  /\ dpc = "to_dense"
  /\ train_dataset' = Stage(train_dataset, "map:to_dense")
  /\ val_dataset' = Stage(val_dataset, "map:to_dense")
  /\ test_dataset' = Stage(test_dataset, "map:to_dense")
  /\ dpc' = "prefetch"
  /\ DsFrame(pc)
  /\ UNCHANGED <<dataset, dsSizes, dsBatch>>

\* Lines 273-275.
DsPrefetch ==
  /\ dpc = "prefetch"
  /\ train_dataset' = PrefetchStage("train", train_dataset)
  /\ val_dataset' = PrefetchStage("val", val_dataset)
  /\ test_dataset' = PrefetchStage("test", test_dataset)
  /\ dpc' = "return"
  /\ DsFrame(pc)
  /\ UNCHANGED <<dataset, dsSizes, dsBatch>>

\* Line 277.
DsReturn ==
  /\ dpc = "return"
  /\ dpc' = "returned"
  /\ DsFrame(Return("build"))
  /\ UNCHANGED <<dataset, dsSizes, dsParts, dsBatch>>

DsNext ==
  \/ DsAssemble \/ DsShuffle \/ DsSizes \/ DsSplit
  \/ DsBatchTrain \/ DsBatchVal \/ DsBatchTest
  \/ DsResize \/ DsAugment \/ DsToDense \/ DsPrefetch \/ DsReturn

\* ------------------------------------- parse_filenames_and_bboxes_from_json

(***************************************************************************)
(* A line of the file is [json |-> "invalid"] (json.loads raises) or       *)
(* [json |-> "object", obj |-> r], r the record of the keys the object     *)
(* has.  An annotation is the record of the keys it has.  Coordinates are  *)
(* numbers the parser copies; they are written in hundredths.              *)
(***************************************************************************)
CoordKeys == <<"y_min_normalized", "x_min_normalized",
               "y_max_normalized", "x_max_normalized">>

\* Line 57: annotation["annotation_label"] in all_labels.
InVocabulary(label, vocabulary) ==
  \E i \in 1..Len(vocabulary) : vocabulary[i] = label

\* Faulty variant: the box in xyxy order.
BoxXYXY(a) == <<a.x_min_normalized, a.y_min_normalized,
                a.x_max_normalized, a.y_max_normalized>>
\* Lines 60-67: the box of an annotation, in rel_yxyx order.
Box(a) == <<a.y_min_normalized, a.x_min_normalized,
            a.y_max_normalized, a.x_max_normalized>>

\* Lines 57-67 raise KeyError: the label is read of every annotation, the
\* coordinates only of one whose label is in the vocabulary.
AnnotationRaises(a, vocabulary) ==
  \/ "annotation_label" \notin DOMAIN a
  \/ /\ InVocabulary(a.annotation_label, vocabulary)
     /\ \E k \in 1..Len(CoordKeys) : CoordKeys[k] \notin DOMAIN a

\* Lines 56-57: the annotations the inner loop keeps.
Kept(annotations, vocabulary) ==
  LET Test(a) == InVocabulary(a.annotation_label, vocabulary)
  IN  SelectSeq(annotations, Test)

\* Lines 54-58 and 55-67: the two lists built for one line.
LineLabels(annotations, vocabulary) ==
  LET kept == Kept(annotations, vocabulary)
  IN  [k \in 1..Len(kept) |-> kept[k].annotation_label]
LineCoords(annotations, vocabulary) ==
  LET kept == Kept(annotations, vocabulary)
  IN  [k \in 1..Len(kept) |-> Box(kept[k])]

\* Faulty variant: a line without a kept annotation gets no entry.
AddEntryUnlessEmpty(list, entry) ==
  IF entry = <<>> THEN list ELSE Append(list, entry)
\* Lines 68-69: the entry of a line is appended whatever its length.
AddEntry(list, entry) == Append(list, entry)

\* How the loop body (lines 51-69) ends for a line: "json" (line 51 or 52
\* raises before anything is appended), "path" (line 52 raises KeyError),
\* "annotations" (a later line raises, image_filenames already appended)
\* or "ok".
LineOutcome(line, vocabulary) ==
  IF line.json # "object" THEN "json"
  ELSE IF "image_path" \notin DOMAIN line.obj THEN "path"
  ELSE IF "bounding_box_annotations" \notin DOMAIN line.obj THEN "annotations"
  ELSE IF \E k \in 1..Len(line.obj.bounding_box_annotations) :
            AnnotationRaises(line.obj.bounding_box_annotations[k], vocabulary)
       THEN "annotations"
  ELSE "ok"

ParserFrame(next) ==
  /\ pc' = next
  /\ UNCHANGED <<argv_num_epochs, num_epochs, EPOCHS, model, tfliteFile,
                 file, all_labels, dsVars, labelVars>>

\* Lines 45-49.
ParseStart ==
  /\ ppc = "start"
  /\ image_filenames' = <<>>
  /\ bbox_labels' = <<>>
  /\ bbox_coords' = <<>>
  /\ lineNo' = 1
  /\ ppc' = "loop"
  /\ ParserFrame(pc)
  /\ UNCHANGED parsed

\* Lines 50-69: one turn of the loop over the lines.
ParseLine ==
  /\ ppc = "loop"
  /\ lineNo <= Len(file)
  /\ LET line    == file[lineNo]
         outcome == LineOutcome(line, all_labels)
     IN  CASE outcome = "ok" ->
                /\ image_filenames' = Append(image_filenames, line.obj.image_path)
                /\ bbox_labels' =
                     AddEntry(bbox_labels,
                              LineLabels(line.obj.bounding_box_annotations,
                                         all_labels))
                /\ bbox_coords' =
                     AddEntry(bbox_coords,
                              LineCoords(line.obj.bounding_box_annotations,
                                         all_labels))
                /\ lineNo' = lineNo + 1
                /\ ppc' = "loop"
                /\ ParserFrame(pc)
           [] outcome = "annotations" ->
                /\ image_filenames' = Append(image_filenames, line.obj.image_path)
                /\ ppc' = "raised"
                /\ ParserFrame(Raise)
                /\ UNCHANGED <<bbox_labels, bbox_coords, lineNo>>
           [] OTHER ->
                /\ ppc' = "raised"
                /\ ParserFrame(Raise)
                /\ UNCHANGED <<image_filenames, bbox_labels, bbox_coords, lineNo>>
  /\ UNCHANGED parsed

\* Line 70.
ParseReturn ==
  /\ ppc = "loop"
  /\ lineNo > Len(file)
  /\ parsed' = <<image_filenames, bbox_labels, bbox_coords>>
  /\ ppc' = "returned"
  /\ ParserFrame(Return("create_dataset"))
  /\ UNCHANGED <<lineNo, image_filenames, bbox_labels, bbox_coords>>

ParseNext == ParseStart \/ ParseLine \/ ParseReturn

\* ------------------------------------------------------------- save_labels

\* Line 327 and line 328: what is written for a label.
LoopChunk(label) == label \o "\n"
\* Faulty variant: the last label gets a newline too.
LastChunkNewline(label) == label \o "\n"
LastChunk(label) == label

LabelFrame(next) ==
  /\ pc' = next
  /\ UNCHANGED <<argv_num_epochs, num_epochs, EPOCHS, model, tfliteFile,
                 file, parserVars, dsVars, labels>>

\* Lines 324-325: open(filename, "w") creates or empties the file.
SlOpen ==
  /\ lpc = "open"
  /\ labelsFile' = [exists |-> TRUE, content |-> ""]
  /\ written' = 0
  /\ lpc' = "loop"
  /\ LabelFrame(pc)

\* Lines 326-327: one turn of the loop over labels[:-1].
SlWrite ==
  /\ lpc = "loop"
  /\ written < Len(labels) - 1
  /\ labelsFile' = [labelsFile EXCEPT
                      !.content = @ \o LoopChunk(labels[written + 1])]
  /\ written' = written + 1
  /\ lpc' = "loop"
  /\ LabelFrame(pc)

\* Line 328: labels[-1] raises IndexError on an empty list; the with block
\* closes the file, which stays as written so far.
SlWriteLast ==
  /\ lpc = "loop"
  /\ written >= Len(labels) - 1
  /\ IF labels = <<>>
     THEN /\ lpc' = "raised"
          /\ LabelFrame(Raise)
          /\ UNCHANGED <<labelsFile, written>>
     ELSE /\ labelsFile' = [labelsFile EXCEPT
                              !.content = @ \o LastChunk(labels[Len(labels)])]
          /\ written' = written + 1
          /\ lpc' = "returned"
          /\ LabelFrame(Return("save_tflite"))

SlNext == SlOpen \/ SlWrite \/ SlWriteLast

\* ---------------------------------------------------------------- __main__

\* Line 417.
LABELS == <<"orange_triangle", "blue_star">>
\* Line 437: train_split=0.8.
MainTrainSplit == <<4, 5>>

\* Line 415: 200 if num_epochs is None or 0 else int(num_epochs).  `is`
\* binds tighter than `or`: the condition is (num_epochs is None) or 0,
\* which is True when the flag is absent and otherwise the int 0, falsy.
IntTruthy(n) == n # 0
Epochs(n) ==
  IF (IF n = None THEN TRUE ELSE IntTruthy(0)) THEN DefaultEpochs ELSE n[1]

MainFrame == UNCHANGED <<file, parserVars, dsVars, labelVars>>

\* Line 413.
ParseArgs ==
  /\ pc = "parse_args"
  /\ num_epochs' = argv_num_epochs
  /\ pc' = "epochs"
  /\ UNCHANGED <<argv_num_epochs, EPOCHS, model, tfliteFile>>
  /\ MainFrame

\* Line 415.
ComputeEpochs ==
  /\ pc = "epochs"
  /\ EPOCHS' = Epochs(num_epochs)
  /\ pc' = "parse"
  /\ UNCHANGED <<argv_num_epochs, num_epochs, model, tfliteFile>>
  /\ MainFrame

\* Lines 419-426.
CallParse ==
  /\ pc = "parse"
  /\ all_labels' = LABELS
  /\ ppc' = "start"
  /\ pc' = "parsing"
  /\ UNCHANGED <<argv_num_epochs, num_epochs, EPOCHS, model, tfliteFile,
                 file, lineNo, image_filenames, bbox_labels, bbox_coords,
                 parsed, dsVars, labelVars>>

\* Lines 429-442.
CallCreateDataset ==
  /\ pc = "create_dataset"
  /\ filenames' = parsed[1]
  /\ train_split' = MainTrainSplit
  /\ batch_size' = GLOBAL_BATCH_SIZE
  /\ shuffle_buffer_size' = SHUFFLE_BUFFER_SIZE
  /\ dpc' = "assemble"
  /\ pc' = "creating_dataset"
  /\ UNCHANGED <<argv_num_epochs, num_epochs, EPOCHS, model, tfliteFile,
                 file, parserVars, dataset, dsSizes, dsParts, dsBatch,
                 dsError, labelVars>>

\* Lines 445-446.
BuildModel ==
  /\ pc = "build"
  /\ model' = [state |-> "compiled", epochs |-> 0]
  /\ pc' = "fit"
  /\ UNCHANGED <<argv_num_epochs, num_epochs, EPOCHS, tfliteFile>>
  /\ MainFrame

\* Lines 449-453.
Fit ==
  /\ pc = "fit"
  /\ model' = [state |-> "trained", epochs |-> EPOCHS]
  /\ pc' = "save_labels"
  /\ UNCHANGED <<argv_num_epochs, num_epochs, EPOCHS, tfliteFile>>
  /\ MainFrame

\* Line 456.
CallSaveLabels ==
  /\ pc = "save_labels"
  /\ labels' = LABELS
  /\ lpc' = "open"
  /\ pc' = "saving_labels"
  /\ UNCHANGED <<argv_num_epochs, num_epochs, EPOCHS, model, tfliteFile,
                 file, parserVars, dsVars, written, labelsFile>>

\* Line 458.
SaveTflite ==
  /\ pc = "save_tflite"
  /\ tfliteFile' = TRUE
  /\ pc' = "done"
  /\ UNCHANGED <<argv_num_epochs, num_epochs, EPOCHS, model>>
  /\ MainFrame

\* ------------------------------------------------------------------ inputs

Ann(label, ymin, xmin, ymax, xmax) ==
  [annotation_label |-> label, y_min_normalized |-> ymin,
   x_min_normalized |-> xmin, y_max_normalized |-> ymax,
   x_max_normalized |-> xmax]
\* An annotation without its x_max_normalized key.
AnnNoXMax(label, ymin, xmin, ymax) ==
  [annotation_label |-> label, y_min_normalized |-> ymin,
   x_min_normalized |-> xmin, y_max_normalized |-> ymax]
\* An annotation without its annotation_label key.
AnnNoLabel(ymin, xmin, ymax, xmax) ==
  [y_min_normalized |-> ymin, x_min_normalized |-> xmin,
   y_max_normalized |-> ymax, x_max_normalized |-> xmax]

Blue   == Ann("blue_star", 10, 20, 30, 40)
Orange == Ann("orange_triangle", 25, 15, 45, 35)
Red    == Ann("red_circle", 50, 60, 70, 80)

AnnotationLists ==
  { <<>>,
    <<Blue, Red>>,
    <<Red>>,
    <<Orange, Blue>>,
    <<Blue, AnnNoXMax("red_circle", 50, 60, 70), Orange>>,
    <<AnnNoXMax("red_circle", 50, 60, 70)>>,
    <<AnnNoXMax("blue_star", 10, 20, 30)>>,
    <<Red, AnnNoLabel(10, 20, 30, 40)>> }

Paths == {"a.jpg", "b.jpg"}

Record(path, annotations) ==
  [json |-> "object",
   obj  |-> [image_path |-> path, bounding_box_annotations |-> annotations]]

Lines ==
  { [json |-> "invalid"],
    [json |-> "object", obj |-> [bounding_box_annotations |-> <<Blue>>]],
    [json |-> "object", obj |-> [image_path |-> "a.jpg"]] }
  \cup { Record(p, l) : p \in Paths, l \in AnnotationLists }

SeqsUpTo(S, n) == UNION { [1..k -> S] : k \in 0..n }

\* The annotation files enumerated line by line.
SmallFiles == SeqsUpTo(Lines, MaxLines)

\* A well-formed file of n lines, long enough for a split.
LongFile(n) ==
  [i \in 1..n |-> Record("img" \o ToString(i),
                         IF i % 2 = 0 THEN <<Blue, Red>> ELSE <<Orange>>)]
LongFiles == { LongFile(n) : n \in (MaxLines + 1)..MaxN }

EpochArgs == {None} \cup { Some(n) : n \in 0..MaxEpochsArg }

TrainSplits == {MainTrainSplit} \cup { <<k, SplitDen>> : k \in 1..(SplitDen - 1) }
BatchSizes == (1..MaxBatch) \cup {DefaultBatch}
ParserVocabularies == { LABELS, <<>>, <<"red_circle">> }
LabelNames == {"orange_triangle", "blue_star", ""}

\* ---------------------------------------------------------- specifications

MainIdle ==
  /\ argv_num_epochs = None
  /\ num_epochs = None
  /\ EPOCHS = 0
  /\ model = [state |-> "none", epochs |-> 0]
  /\ tfliteFile = FALSE

ParserIdle(p) ==
  /\ ppc = p
  /\ lineNo = 0
  /\ image_filenames = <<>>
  /\ bbox_labels = <<>>
  /\ bbox_coords = <<>>
  /\ parsed = <<<<>>, <<>>, <<>>>>

DsIdle(d) ==
  /\ dpc = d
  /\ dataset = EmptyDs
  /\ train_size = 0 /\ val_size = 0 /\ test_size = 0
  /\ train_dataset = EmptyDs /\ val_dataset = EmptyDs /\ test_dataset = EmptyDs
  /\ train_batch_size = 0 /\ val_batch_size = 0 /\ test_batch_size = 0
  /\ dsError = NoError

DsNoArgs ==
  /\ filenames = <<>>
  /\ train_split = MainTrainSplit
  /\ batch_size = 0
  /\ shuffle_buffer_size = 0

LabelIdle(l) ==
  /\ lpc = l
  /\ written = 0
  /\ labelsFile = [exists |-> FALSE, content |-> ""]

\* The script run from the command line.
Init ==
  /\ pc = "parse_args"
  /\ argv_num_epochs \in EpochArgs
  /\ num_epochs = None
  /\ EPOCHS = 0
  /\ model = [state |-> "none", epochs |-> 0]
  /\ tfliteFile = FALSE
  /\ file \in SmallFiles \cup LongFiles
  /\ all_labels = <<>>
  /\ ParserIdle("idle")
  /\ DsNoArgs
  /\ DsIdle("idle")
  /\ labels = <<>>
  /\ LabelIdle("idle")

Next ==
  \/ ParseArgs \/ ComputeEpochs \/ CallParse \/ ParseNext
  \/ CallCreateDataset \/ DsNext
  \/ BuildModel \/ Fit \/ CallSaveLabels \/ SlNext \/ SaveTflite

Spec == Init /\ [][Next]_vars

\* parse_filenames_and_bboxes_from_json called on a file and a vocabulary.
InitParse ==
  /\ pc = "harness"
  /\ MainIdle
  /\ file \in SmallFiles
  /\ all_labels \in ParserVocabularies
  /\ ParserIdle("start")
  /\ DsNoArgs
  /\ DsIdle("idle")
  /\ labels = <<>>
  /\ LabelIdle("idle")

SpecParse == InitParse /\ [][ParseNext]_vars

\* create_dataset_detection called on n records.
InitDataset ==
  /\ pc = "harness"
  /\ MainIdle
  /\ file = <<>>
  /\ all_labels = <<>>
  /\ ParserIdle("idle")
  /\ \E n \in 0..MaxN : filenames = [i \in 1..n |-> "img" \o ToString(i)]
  /\ train_split \in TrainSplits
  /\ batch_size \in BatchSizes
  /\ shuffle_buffer_size \in 1..MaxShuffleBuffer
  /\ DsIdle("assemble")
  /\ labels = <<>>
  /\ LabelIdle("idle")

SpecDataset == InitDataset /\ [][DsNext]_vars

\* save_labels called on a vocabulary.
InitLabels ==
  /\ pc = "harness"
  /\ MainIdle
  /\ file = <<>>
  /\ all_labels = <<>>
  /\ ParserIdle("idle")
  /\ DsNoArgs
  /\ DsIdle("idle")
  /\ labels \in SeqsUpTo(LabelNames, MaxVocab)
  /\ LabelIdle("open")

SpecLabels == InitLabels /\ [][SlNext]_vars

\* ------------------------------------------------------------------ claims

Range(s) == { s[i] : i \in DOMAIN s }
Last(s) == s[Len(s)]

DsOrder == <<"assemble", "shuffle", "sizes", "split", "batch_train",
             "batch_val", "batch_test", "resize", "augment", "to_dense",
             "prefetch", "return", "returned">>
Idx(stage) == CHOOSE i \in 1..Len(DsOrder) : DsOrder[i] = stage
\* The statement the builder is at, or raised at.
DsAt == IF dpc = "raised" THEN dsError.at ELSE dpc
\* The statement at `stage` has run to its end.
DsDone(stage) == dpc # "idle" /\ Idx(DsAt) > Idx(stage)
\* The statement at `stage` has run, to its end or to an exception.
DsTried(stage) == DsDone(stage) \/ (dpc = "raised" /\ dsError.at = stage)

RECURSIVE SumLen(_)
SumLen(batches) ==
  IF batches = <<>> THEN 0 ELSE Len(Head(batches)) + SumLen(Tail(batches))

\* How often record r is yielded by the three partitions together.
Occurrences(r) ==
  Cardinality({ i \in DOMAIN train_dataset.elems : train_dataset.elems[i] = r })
  + Cardinality({ i \in DOMAIN val_dataset.elems : val_dataset.elems[i] = r })
  + Cardinality({ i \in DOMAIN test_dataset.elems : test_dataset.elems[i] = r })

\* C1: once the split is made, the three sizes are >= 0 and sum to the number
\* of records, the partitions are the ranges [0, train_size),
\* [train_size, train_size + val_size) and [train_size + val_size, N) of the
\* shuffled order, and every record is in exactly one partition, once.
C1_SplitCoversEveryRecordOnce ==
  DsDone("split") =>
    LET n == Len(filenames)
        e == dataset.elems
    IN  /\ train_size >= 0 /\ val_size >= 0 /\ test_size >= 0
        /\ train_size + val_size + test_size = n
        /\ train_dataset.elems = SubSeq(e, 1, train_size)
        /\ val_dataset.elems = SubSeq(e, train_size + 1, train_size + val_size)
        /\ test_dataset.elems = SubSeq(e, train_size + val_size + 1, n)
        /\ Range(e) = 1..n
        /\ \A r \in 1..n : Occurrences(r) = 1

\* A split into three non-empty partitions of a shuffled order.
C1_Witness ==
  /\ DsDone("split")
  /\ train_size > 0 /\ val_size > 0 /\ test_size > 0
  /\ dataset.elems[1] # 1
  /\ Len(test_dataset.elems) = test_size

\* What C2 says of one partition of size p with batch size b passed.
BatchesClamped(tried, done, ds, p, b) ==
  tried =>
    /\ b = Min(batch_size, p)
    /\ p = Len(ds.elems)
    /\ done => ds.batched
    /\ \A k \in 1..Len(ds.batches) : Len(ds.batches[k]) <= Min(batch_size, p)
    /\ SumLen(ds.batches) = p
    /\ (done /\ p = 3 /\ batch_size = DefaultBatch) =>
         (Len(ds.batches) = 1 /\ Len(ds.batches[1]) = 3)

\* C2: for each partition, the batch size passed to batching is
\* min(B, P), no batch is larger than it, the batches' sizes sum to P, and
\* a partition of size 3 with B = 64 gives one batch of size 3.
C2_BatchSizeClamped ==
  /\ BatchesClamped(DsTried("batch_train"), DsDone("batch_train"),
                    train_dataset, train_size, train_batch_size)
  /\ BatchesClamped(DsTried("batch_val"), DsDone("batch_val"),
                    val_dataset, val_size, val_batch_size)
  /\ BatchesClamped(DsTried("batch_test"), DsDone("batch_test"),
                    test_dataset, test_size, test_batch_size)

\* A train partition of size 3 batched with B = 64, and a test partition
\* larger than its batch size, in several batches.
C2_Witness ==
  /\ DsDone("batch_train")
  /\ train_size = 3 /\ batch_size = DefaultBatch
  /\ train_dataset.batches = <<train_dataset.elems>>
  /\ train_batch_size = 3

\* C3 as claimed: whatever the sizes (no record, an empty partition, a
\* partition smaller than the batch size), construction does not raise.
C3_DegenerateSizesNeverRaise == dpc # "raised"

\* C4 as claimed: train_size = floor(train_split * N),
\* val_size = floor((1 - train_split) * 0.5 * N), test_size the rest; N = 10
\* and train_split = 0.8 give 8, 1 and 1.
C4_SizesFollowFormula ==
  DsDone("sizes") =>
    LET n   == Len(filenames)
        num == train_split[1]
        den == train_split[2]
    IN  /\ train_size = (num * n) \div den
        /\ val_size = ((den - num) * n) \div (2 * den)
        /\ test_size = n - train_size - val_size
        /\ (n = 10 /\ train_split = MainTrainSplit) =>
             (train_size = 8 /\ val_size = 1 /\ test_size = 1)

\* The annotations of line i of a file the parser got through.
Annotations(i) == file[i].obj.bounding_box_annotations
VocabularySet == Range(all_labels)
\* The places in line i of the annotations whose label is in the vocabulary.
Matching(i) ==
  { k \in 1..Len(Annotations(i)) :
      Annotations(i)[k].annotation_label \in VocabularySet }
\* The j-th smallest member of a set of numbers.
Nth(S, j) == CHOOSE k \in S : Cardinality({ m \in S : m <= k }) = j

\* C5: the parser returns three sequences with one entry per line, in the
\* order of the lines; the i-th path is the image_path of line i and the i-th
\* label and box lists have one member per vocabulary-matching annotation of
\* line i, none when the line has none.
C5_OutputsAligned ==
  ppc = "returned" =>
    /\ Len(parsed[1]) = Len(file)
    /\ Len(parsed[2]) = Len(file)
    /\ Len(parsed[3]) = Len(file)
    /\ \A i \in 1..Len(file) :
         /\ parsed[1][i] = file[i].obj.image_path
         /\ Len(parsed[2][i]) = Cardinality(Matching(i))
         /\ Len(parsed[3][i]) = Cardinality(Matching(i))

\* The spec's scenario: image A with a blue_star and a red_circle, image B
\* with no matching annotation.
C5_Witness ==
  /\ ppc = "returned"
  /\ all_labels = LABELS
  /\ file = <<Record("a.jpg", <<Blue, Red>>), Record("b.jpg", <<Red>>)>>
  /\ parsed = << <<"a.jpg", "b.jpg">>,
                 << <<"blue_star">>, <<>> >>,
                 << << <<10, 20, 30, 40>> >>, <<>> >> >>

\* C6: the labels of a record are the labels of the line's annotations that
\* are in the vocabulary, in the line's order, and the k-th box is
\* (y_min, x_min, y_max, x_max) of the k-th annotation kept.
C6_OnlyVocabularyKept ==
  ppc = "returned" =>
    \A i \in 1..Len(file) :
      LET ls == parsed[2][i]
          bs == parsed[3][i]
          M  == Matching(i)
      IN  /\ Len(ls) = Len(bs)
          /\ Len(ls) = Cardinality(M)
          /\ \A j \in 1..Len(ls) :
               LET a == Annotations(i)[Nth(M, j)]
               IN  /\ ls[j] = a.annotation_label
                   /\ ls[j] \in VocabularySet
                   /\ bs[j] = <<a.y_min_normalized, a.x_min_normalized,
                                a.y_max_normalized, a.x_max_normalized>>

\* A line whose kept annotations surround a dropped one.
C6_Witness ==
  /\ ppc = "returned"
  /\ \E i \in 1..Len(file) :
       /\ Len(Annotations(i)) = 3
       /\ parsed[2][i] = <<"blue_star", "orange_triangle">>
       /\ parsed[3][i] = << <<10, 20, 30, 40>>, <<25, 15, 45, 35>> >>

\* C7 as claimed: EPOCHS is the default when --num_epochs is absent or
\* zero, and the value given otherwise.
C7_EpochsDefaultWhenAbsentOrZero ==
  pc \notin {"parse_args", "epochs"} =>
    EPOCHS = IF num_epochs = None \/ num_epochs = Some(0)
             THEN DefaultEpochs ELSE num_epochs[1]

RECURSIVE JoinLines(_)
JoinLines(ls) ==
  IF ls = <<>> THEN ""
  ELSE IF Len(ls) = 1 THEN ls[1]
  ELSE ls[1] \o "\n" \o JoinLines(Tail(ls))

\* C8: the file save_labels leaves holds the labels in vocabulary order,
\* separated by single newlines, with no newline after the last one.
C8_LabelsFileContent ==
  lpc \in {"returned", "raised"} =>
    /\ labelsFile.exists
    /\ labelsFile.content = JoinLines(labels)
    /\ labels = LABELS => labelsFile.content = "orange_triangle\nblue_star"

C8_Witness ==
  /\ lpc = "returned"
  /\ labels = LABELS
  /\ labelsFile.content = "orange_triangle\nblue_star"

AnnotationKeys == Range(CoordKeys) \cup {"annotation_label"}

\* An input-format error as C9 has it: any key missing.
FormatError(line) ==
  \/ line.json # "object"
  \/ "image_path" \notin DOMAIN line.obj
  \/ "bounding_box_annotations" \notin DOMAIN line.obj
  \/ \E k \in 1..Len(line.obj.bounding_box_annotations) :
       \E key \in AnnotationKeys :
         key \notin DOMAIN line.obj.bounding_box_annotations[k]

\* An input-format error the parser meets: the label of any annotation
\* missing, or a coordinate of an annotation whose label is in LABELS.
FatalFormatError(line) ==
  \/ line.json # "object"
  \/ "image_path" \notin DOMAIN line.obj
  \/ "bounding_box_annotations" \notin DOMAIN line.obj
  \/ \E k \in 1..Len(line.obj.bounding_box_annotations) :
       LET a == line.obj.bounding_box_annotations[k]
       IN  \/ "annotation_label" \notin DOMAIN a
           \/ /\ a.annotation_label \in Range(LABELS)
              /\ \E key \in Range(CoordKeys) : key \notin DOMAIN a

\* The parser has returned nothing and nothing of the run after it exists.
NothingAfterParsing ==
  /\ ppc # "returned"
  /\ parsed = <<<<>>, <<>>, <<>>>>
  /\ dpc = "idle"
  /\ model.state = "none"
  /\ ~labelsFile.exists
  /\ ~tfliteFile

\* C9 as claimed: a file with an input-format error, any missing annotation
\* key included, never gets past the parser.
C9_AnyFormatErrorIsFatal ==
  (\E i \in 1..Len(file) : FormatError(file[i])) => NothingAfterParsing

\* C9, amended: a file with a line that is not JSON, or a record without
\* image_path, bounding_box_annotations, the label of an annotation or a
\* coordinate of an annotation whose label is in the vocabulary, never gets
\* past the parser, and once the parser has raised the run is over.
C9_FatalFormatErrorAborts ==
  /\ (\E i \in 1..Len(file) : FatalFormatError(file[i])) => NothingAfterParsing
  /\ ppc = "raised" => (pc = "aborted" /\ NothingAfterParsing)

\* The parser raised on the second line, the first one already taken in.
C9_Witness ==
  /\ ppc = "raised"
  /\ pc = "aborted"
  /\ lineNo = 2
  /\ Len(bbox_labels) = 1
  /\ FatalFormatError(file[2])
  /\ NothingAfterParsing

DenseThenPrefetch(ds) ==
  /\ Len(ds.stages) >= 2
  /\ Last(ds.stages) = "prefetch"
  /\ ds.stages[Len(ds.stages) - 1] = "map:to_dense"

\* C10 as claimed: each of the three partitions returned ends in a prefetch
\* stage that follows the densification.
C10_AllPartitionsPrefetched ==
  dpc = "returned" =>
    /\ DenseThenPrefetch(train_dataset)
    /\ DenseThenPrefetch(val_dataset)
    /\ DenseThenPrefetch(test_dataset)

\* C10, amended: the train and validation partitions returned end in a
\* prefetch stage that follows the densification; the test partition ends
\* in the densification and has no prefetch stage.
C10_TrainAndValPrefetched ==
  dpc = "returned" =>
    /\ DenseThenPrefetch(train_dataset)
    /\ DenseThenPrefetch(val_dataset)
    /\ Last(test_dataset.stages) = "map:to_dense"
    /\ "prefetch" \notin Range(test_dataset.stages)

C10_Witness ==
  /\ dpc = "returned"
  /\ train_size > 0 /\ val_size > 0 /\ test_size > 0
  /\ Last(val_dataset.stages) = "prefetch"

====
